---- MODULE Spec2Model ----
(***************************************************************************)
(* Portfolio ledger and valuation engine of Finance-Tracker-2.             *)
(*                                                                         *)
(* State: the Streamlit session (portfolio, cash, needs_cash), the four    *)
(* SQLite tables (portfolio, cash, trade_log, portfolio_history) and the   *)
(* record of the last call.  Money is kept in cents as exact rationals     *)
(* [n, d]; the Python code uses binary floats, so every statement below    *)
(* is about the arithmetic the code writes down, evaluated exactly.        *)
(***************************************************************************)
EXTENDS Integers, Sequences, FiniteSets, TLC

\* ------------------------------------------------------------------ bounds
\* Number of trade_log rows after which no further trade is attempted.
MaxTrades == 3

\* Last day (config.TODAY, as a day number) on which the process is started.
MaxDay == 2

\* Cash balance (cents) above which no further deposit is attempted.
MaxCash == 17000

\* ------------------------------------------------------- exact arithmetic
RECURSIVE Gcd(_, _)
Gcd(a, b) == IF b = 0 THEN a ELSE Gcd(b, a % b)

Abs(x) == IF x < 0 THEN -x ELSE x

\* The rational n/d in lowest terms, d > 0.
Norm(n, d) ==
    LET g == Gcd(Abs(n), d)
    IN  [n |-> n \div g, d |-> d \div g]

R(i) == [n |-> i, d |-> 1]

RAdd(a, b) == Norm(a.n * b.d + b.n * a.d, a.d * b.d)
RSub(a, b) == Norm(a.n * b.d - b.n * a.d, a.d * b.d)
RMul(a, b) == Norm(a.n * b.n, a.d * b.d)
\* a / b for b > 0
RDiv(a, b) == Norm(a.n * b.d, a.d * b.n)
RLe(a, b) == a.n * b.d <= b.n * a.d
RLt(a, b) == a.n * b.d < b.n * a.d

\* round(x, 2) of an amount in dollars, i.e. to a whole number of cents;
\* Python rounds an exact tie to the even neighbour.
Round2(x) ==
    LET a == x
        q == a.n \div a.d
        r == a.n - q * a.d
    IN  IF 2 * r < a.d THEN R(q)
        ELSE IF 2 * r > a.d THEN R(q + 1)
        ELSE IF q % 2 = 0 THEN R(q) ELSE R(q + 1)

\* The empty string "" written into a numeric column, and a column the
\* inserted row does not have (NULL).  Neither is a number: d <= 0.
Blank == [n |-> 0, d |-> 0]
Null == [n |-> 0, d |-> -1]

\* ------------------------------------------------------------ input sets
\* Ticker strings a caller may type, and str.upper() on them.
TickerInputs == {"abc", "ABC", "XYZ"}

\* Faulty variant: the ticker is used as typed.
Upper_AsTyped(t) == t

Upper(t) == IF t = "abc" THEN "ABC" ELSE t

ShareInputs == {0, 10, 20}

\* prices in cents
PriceInputs == {R(0), R(500), R(700)}

StopInputs == {R(0), R(400)}

\* amounts typed into the starting-cash form
StartCashInputs == {R(0), R(17000)}

\* amounts typed into the "Add Cash" form (min_value 0.0)
DepositInputs == {R(0), R(5000)}

\* the values typed into the trade forms in the runs over several days and
\* in the runs with failing store writes
LedgerTickers == {"abc", "XYZ"}

LedgerShares == {20}

LedgerPrices == {R(500)}

LedgerStops == {R(0)}

\* NaN, as pandas reports a missing close.
NaN == [n |-> 0, d |-> -2]

\* get_day_high_low: the day's (high, low), or an exception whose text is
\* returned to the caller.
NoData == [avail |-> FALSE, high |-> NaN, low |-> NaN]

DayRange(high, low) == [avail |-> TRUE, high |-> R(high), low |-> R(low)]

RangeInputs == {NoData, DayRange(700, 500), DayRange(699, 501)}

\* fetch_prices: the batch of last closes used by the valuation.
\*   "empty"    an empty frame (the download raised, or returned nothing)
\*   "single"   plain columns: one Close value
\*   "multi"    MultiIndex columns: Close per ticker, NaN or absent for a
\*              ticker that did not resolve
EmptyFrame == [kind |-> "empty", close |-> NaN, closes |-> << >>]

SingleFrame(c) == [kind |-> "single", close |-> c, closes |-> << >>]

MultiFrame(f) == [kind |-> "multi", close |-> NaN, closes |-> f]

QuoteInputs ==
    { EmptyFrame,
      SingleFrame(R(600)),
      MultiFrame([t \in {"ABC", "XYZ"} |-> IF t = "ABC" THEN R(600) ELSE NaN]),
      MultiFrame([t \in {"XYZ"} |-> R(555)]) }

\* ----------------------------------------------------------------- state
VARIABLES
    portfolio,     \* st.session_state.portfolio: sequence of holding rows
    cash,          \* st.session_state.cash
    needs_cash,    \* st.session_state.needs_cash
    dbPortfolio,   \* table portfolio
    dbCash,        \* table cash: no row, or the one row with id 0
    dbTradeLog,    \* table trade_log, in id order
    dbHistory,     \* table portfolio_history, in insertion order
    today,         \* config.TODAY of the running process (day number)
    quotes,        \* st.cache_data of fetch_prices: the last list asked for
                   \* and the frame returned for it
    call,          \* the last call: its arguments, the state it saw, its result
    other,         \* a second session on the same store: its st.session_state
    schema         \* a call of ensure_schema: the frame passed and returned

vars == <<portfolio, cash, needs_cash, dbPortfolio, dbCash, dbTradeLog,
          dbHistory, today, quotes, call, other, schema>>

\* what the handlers of the first session never touch
apart == <<other, schema>>

dbVars == <<dbPortfolio, dbCash, dbTradeLog, dbHistory>>

\* -------------------------------------------------------------- messages
MsgInvalid == "Shares and price must be positive."
MsgNoData == "No market data available."
MsgOutOfRange == "Price outside today's range"
MsgInsufficient == "Insufficient cash for this trade."
MsgUnknown == "Ticker not in portfolio."
MsgOverSell == "Trying to sell more shares than owned"
MsgBought == "Bought"
MsgSold == "Sold"
\* a store write raised: the exception reaches the caller
MsgStore == "store write failed"

\* ------------------------------------------------------- holdings helpers
Holding(t, sh, st, bp, cb) ==
    [ticker |-> t, shares |-> sh, stop_loss |-> st, buy_price |-> bp,
     cost_basis |-> cb]

\* portfolio_df[COL_TICKER] == ticker: the positions of the matching rows
Mask(port, t) == {i \in 1..Len(port) : port[i].ticker = t}

\* portfolio_df[mask].index[0] / .iloc[0]: the first matching row
First(port, t) == CHOOSE i \in Mask(port, t) : \A j \in Mask(port, t) : i <= j

\* portfolio_df[portfolio_df[COL_TICKER] != ticker]
RECURSIVE Without(_, _)
Without(port, t) ==
    IF port = << >> THEN << >>
    ELSE IF Head(port).ticker = t THEN Without(Tail(port), t)
    ELSE <<Head(port)>> \o Without(Tail(port), t)

\* ----------------------------------------------------- Valuation Engine
\* fetch_prices(tickers) when it runs: nothing is requested for an empty
\* list, otherwise the provider's answer (an empty frame if it raised)
FetchPrices(tickers, data) == IF tickers = << >> THEN EmptyFrame ELSE data

\* Faulty variant: only the first ticker of the batch is looked up.
PriceOf_FirstOnly(t, tickers, frame) ==
    IF t # tickers[1] THEN R(0)
    ELSE IF frame.kind = "multi"
    THEN IF t \in DOMAIN frame.closes /\ frame.closes[t] # NaN
         THEN frame.closes[t] ELSE R(0)
    ELSE IF frame.kind = "single" /\ frame.close # NaN THEN frame.close
    ELSE R(0)

\* the prices dict: 0.0 unless the frame holds a usable close for t
PriceOf(t, tickers, frame) ==
    IF frame.kind = "multi"
    THEN IF t \in DOMAIN frame.closes /\ frame.closes[t] # NaN
         THEN frame.closes[t] ELSE R(0)
    ELSE IF frame.kind = "single"
    THEN IF t = tickers[1] /\ frame.close # NaN THEN frame.close ELSE R(0)
    ELSE R(0)

HoldingValue(h, price) == Round2(RMul(price, R(h.shares)))

\* Faulty variant: the P&L is stored unrounded.
HoldingPnl_Unrounded(h, price) == RMul(RSub(price, h.buy_price), R(h.shares))

HoldingPnl(h, price) == Round2(RMul(RSub(price, h.buy_price), R(h.shares)))

\* one portfolio_history row per holding; the column cost_basis receives
\* the holding's buy_price
HoldingRow(h, price, date) ==
    [date |-> date, ticker |-> h.ticker, shares |-> R(h.shares),
     cost_basis |-> h.buy_price, stop_loss |-> h.stop_loss,
     current_price |-> price, total_value |-> HoldingValue(h, price),
     pnl |-> HoldingPnl(h, price), action |-> "HOLD",
     cash_balance |-> Blank, total_equity |-> Blank]

\* the per-holding rows, in the order of the frame
RECURSIVE HoldingRows(_, _, _, _)
HoldingRows(port, tickers, frame, date) ==
    IF port = << >> THEN << >>
    ELSE <<HoldingRow(Head(port), PriceOf(Head(port).ticker, tickers, frame),
                      date)>>
         \o HoldingRows(Tail(port), tickers, frame, date)

\* total_value += value; total_pnl += pnl
RECURSIVE SumField(_, _)
SumField(rows, f) ==
    IF rows = << >> THEN R(0)
    ELSE LET rest == SumField(Tail(rows), f)
             v == Head(rows)[f]
         IN  Norm(v.n * rest.d + rest.n * v.d, v.d * rest.d)

TotalRow(rows, csh, date) ==
    LET total_value == SumField(rows, "total_value")
        total_pnl == SumField(rows, "pnl")
    IN  [date |-> date, ticker |-> "TOTAL", shares |-> Blank,
         cost_basis |-> Blank, stop_loss |-> Blank, current_price |-> Blank,
         total_value |-> Round2(total_value), pnl |-> Round2(total_pnl),
         action |-> "", cash_balance |-> Round2(csh),
         total_equity |-> Round2(RAdd(total_value, csh))]

\* portfolio_df[COL_TICKER].tolist()
Tickers(port) == [i \in 1..Len(port) |-> port[i].ticker]

\* the frame save_portfolio_snapshot returns and stores, given the frame
\* fetch_prices handed it
SnapshotRows(port, csh, frame, date) ==
    LET rows == HoldingRows(port, Tickers(port), frame, date)
    IN  Append(rows, TotalRow(rows, csh, date))

\* Faulty variant: the DELETE has no WHERE clause.
OtherDates_DeletesAll(hist, date) == << >>

\* DELETE FROM portfolio_history WHERE date = TODAY, then append
RECURSIVE OtherDates(_, _)
OtherDates(hist, date) ==
    IF hist = << >> THEN << >>
    ELSE IF Head(hist).date = date THEN OtherDates(Tail(hist), date)
    ELSE <<Head(hist)>> \o OtherDates(Tail(hist), date)

\* Faulty variant: the snapshot is appended without the DELETE before.
ReplaceHistory_AppendsOnly(hist, rows, date) == hist \o rows

ReplaceHistory(hist, rows, date) == OtherDates(hist, date) \o rows

\* ---------------------------------------------------------- Trade Engine
\* Faulty variant: zero is let through (< written for <=).
NonPositive_Strict(shares, price) == shares < 0 \/ RLt(price, R(0))

\* shares <= 0 or price <= 0
NonPositive(shares, price) == shares <= 0 \/ RLe(price, R(0))

\* Faulty variant: the bounds of the day range are excluded.
InDayRange_Exclusive(price, rng) == RLt(rng.low, price) /\ RLt(price, rng.high)

\* day_low <= price <= day_high
InDayRange(price, rng) == RLe(rng.low, price) /\ RLe(price, rng.high)

\* cost = price * shares
Cost(price, shares) == RMul(price, R(shares))

\* Faulty variant: the funds check is missing.
ExceedsCash_Never(cost, csh) == FALSE

\* Faulty variant: a cost equal to cash is refused (>= written for >).
ExceedsCash_OrEqual(cost, csh) == RLe(csh, cost)

\* cost > cash
ExceedsCash(cost, csh) == RLt(csh, cost)

BuyLog(date, t, shares, price) ==
    [date |-> date, ticker |-> t, shares_bought |-> R(shares),
     buy_price |-> price, cost_basis |-> Cost(price, shares), pnl |-> R(0),
     reason |-> "MANUAL BUY - New position", shares_sold |-> Null,
     sell_price |-> Null]

\* Faulty variant: the per-share price is stored as the cost basis.
NewRow_PriceAsCost(t, shares, stop, price) ==
    Holding(t, shares, stop, price, price)

\* the row of a ticker bought for the first time
NewRow(t, shares, stop, price) ==
    Holding(t, shares, stop, price, Cost(price, shares))

\* Faulty variant: the merge does not recompute the average price.
MergeRow_StalePrice(h, shares, stop, price) ==
    Holding(h.ticker, h.shares + shares, stop, h.buy_price,
            RAdd(h.cost_basis, Cost(price, shares)))

\* Faulty variant: the merge keeps the stop the holding already had.
MergeRow_KeepsStop(h, shares, stop, price) ==
    LET newShares == h.shares + shares
        newCost == RAdd(h.cost_basis, Cost(price, shares))
    IN  Holding(h.ticker, newShares, h.stop_loss,
                RDiv(newCost, R(newShares)), newCost)

\* Faulty variant: the cost basis becomes the plain mean of the two prices
\* times the shares, whatever the sizes of the two lots.
MergeRow_PlainMean(h, shares, stop, price) ==
    LET newShares == h.shares + shares
        mean == RDiv(RAdd(h.buy_price, price), R(2))
    IN  Holding(h.ticker, newShares, stop, mean, RMul(mean, R(newShares)))

\* an existing row after a further buy
MergeRow(h, shares, stop, price) ==
    LET newShares == h.shares + shares
        newCost == RAdd(h.cost_basis, Cost(price, shares))
    IN  Holding(h.ticker, newShares, stop, RDiv(newCost, R(newShares)), newCost)

\* Faulty variant: every buy opens a row of its own.
BoughtHoldings_AppendsLot(port, t, shares, stop, price) ==
    Append(port, NewRow(t, shares, stop, price))

\* the holdings after a buy that passed every check
BoughtHoldings(port, t, shares, stop, price) ==
    IF Mask(port, t) = {}
    THEN Append(port, NewRow(t, shares, stop, price))
    ELSE [port EXCEPT ![First(port, t)] = MergeRow(@, shares, stop, price)]

\* what a call hands back, and what it asks the store to write:
\*   log    the trade_log rows appended (none or one)
\*   save   whether save_portfolio_snapshot(portfolio, cash) is called
\*   queried whether get_day_high_low was called
Result(ok, msg, port, csh, queried, log) ==
    [ok |-> ok, msg |-> msg, portfolio |-> port, cash |-> csh,
     queried |-> queried, log |-> log, save |-> ok]

\* Faulty variant: the trade is logged before the funds check.
ManualBuy_LogsFirst(ticker, shares, price, stop, port, csh, rng, date) ==
    LET t == Upper(ticker)
        cost == Cost(price, shares)
    IN  IF NonPositive(shares, price)
        THEN Result(FALSE, MsgInvalid, port, csh, FALSE, << >>)
        ELSE IF ~rng.avail
        THEN Result(FALSE, MsgNoData, port, csh, TRUE, << >>)
        ELSE IF ~InDayRange(price, rng)
        THEN Result(FALSE, MsgOutOfRange, port, csh, TRUE, << >>)
        ELSE IF ExceedsCash(cost, csh)
        THEN Result(FALSE, MsgInsufficient, port, csh, TRUE,
                    <<BuyLog(date, t, shares, price)>>)
        ELSE Result(TRUE, MsgBought,
                    BoughtHoldings(port, t, shares, stop, price),
                    RSub(csh, cost), TRUE, <<BuyLog(date, t, shares, price)>>)

\* Faulty variant: the funds are checked before the day range is asked for.
ManualBuy_FundsFirst(ticker, shares, price, stop, port, csh, rng, date) ==
    LET t == Upper(ticker)
        cost == Cost(price, shares)
    IN  IF NonPositive(shares, price)
        THEN Result(FALSE, MsgInvalid, port, csh, FALSE, << >>)
        ELSE IF ExceedsCash(cost, csh)
        THEN Result(FALSE, MsgInsufficient, port, csh, FALSE, << >>)
        ELSE IF ~rng.avail
        THEN Result(FALSE, MsgNoData, port, csh, TRUE, << >>)
        ELSE IF ~InDayRange(price, rng)
        THEN Result(FALSE, MsgOutOfRange, port, csh, TRUE, << >>)
        ELSE Result(TRUE, MsgBought,
                    BoughtHoldings(port, t, shares, stop, price),
                    RSub(csh, cost), TRUE, <<BuyLog(date, t, shares, price)>>)

ManualBuy(ticker, shares, price, stop, port, csh, rng, date) ==
    LET t == Upper(ticker)
        cost == Cost(price, shares)
    IN  IF NonPositive(shares, price)
        THEN Result(FALSE, MsgInvalid, port, csh, FALSE, << >>)
        ELSE IF ~rng.avail
        THEN Result(FALSE, MsgNoData, port, csh, TRUE, << >>)
        ELSE IF ~InDayRange(price, rng)
        THEN Result(FALSE, MsgOutOfRange, port, csh, TRUE, << >>)
        ELSE IF ExceedsCash(cost, csh)
        THEN Result(FALSE, MsgInsufficient, port, csh, TRUE, << >>)
        ELSE Result(TRUE, MsgBought,
                    BoughtHoldings(port, t, shares, stop, price),
                    RSub(csh, cost), TRUE, <<BuyLog(date, t, shares, price)>>)

\* Faulty variant: the realized P&L is taken per share, not for the lot sold.
SellLog_PerShare(date, t, shares, price, buy_price) ==
    LET cost_basis == RMul(buy_price, R(shares))
    IN  [date |-> date, ticker |-> t, shares_bought |-> Blank,
         buy_price |-> Blank, cost_basis |-> cost_basis,
         pnl |-> RSub(price, buy_price),
         reason |-> "MANUAL SELL - User", shares_sold |-> R(shares),
         sell_price |-> price]

\* Faulty variant: the shares sold are written to the shares_bought column.
SellLog_AsBought(date, t, shares, price, buy_price) ==
    LET cost_basis == RMul(buy_price, R(shares))
    IN  [date |-> date, ticker |-> t, shares_bought |-> R(shares),
         buy_price |-> Blank, cost_basis |-> cost_basis,
         pnl |-> RSub(RMul(price, R(shares)), cost_basis),
         reason |-> "MANUAL SELL - User", shares_sold |-> Null,
         sell_price |-> price]

SellLog(date, t, shares, price, buy_price) ==
    LET cost_basis == RMul(buy_price, R(shares))
    IN  [date |-> date, ticker |-> t, shares_bought |-> Blank,
         buy_price |-> Blank, cost_basis |-> cost_basis,
         pnl |-> RSub(RMul(price, R(shares)), cost_basis),
         reason |-> "MANUAL SELL - User", shares_sold |-> R(shares),
         sell_price |-> price]

\* Faulty variant: the cost basis is not recomputed after a partial sell.
ReducedRow_StaleCost(h, shares) ==
    Holding(h.ticker, h.shares - shares, h.stop_loss, h.buy_price,
            h.cost_basis)

\* the first row of the ticker after selling part of it
ReducedRow(h, shares) ==
    LET left == h.shares - shares
    IN  Holding(h.ticker, left, h.stop_loss, h.buy_price,
                RMul(R(left), h.buy_price))

\* Faulty variant: a position sold out stays in the frame with 0 shares.
SoldHoldings_KeepsRow(port, t, shares) ==
    [port EXCEPT ![First(port, t)] = ReducedRow(@, shares)]

\* the holdings after a sell that passed every check
SoldHoldings(port, t, shares) ==
    IF shares = port[First(port, t)].shares
    THEN Without(port, t)
    ELSE [port EXCEPT ![First(port, t)] = ReducedRow(@, shares)]

\* Faulty variant: the day range is asked for before the holdings are looked
\* at, and the shares held are checked before the price.
ManualSell_RangeFirst(ticker, shares, price, port, csh, rng, date) ==
    LET t == Upper(ticker)
    IN  IF NonPositive(shares, price)
        THEN Result(FALSE, MsgInvalid, port, csh, FALSE, << >>)
        ELSE IF ~rng.avail
        THEN Result(FALSE, MsgNoData, port, csh, TRUE, << >>)
        ELSE IF Mask(port, t) = {}
        THEN Result(FALSE, MsgUnknown, port, csh, TRUE, << >>)
        ELSE IF shares > port[First(port, t)].shares
        THEN Result(FALSE, MsgOverSell, port, csh, TRUE, << >>)
        ELSE IF ~InDayRange(price, rng)
        THEN Result(FALSE, MsgOutOfRange, port, csh, TRUE, << >>)
        ELSE Result(TRUE, MsgSold, SoldHoldings(port, t, shares),
                    RAdd(csh, RMul(price, R(shares))), TRUE,
                    <<SellLog(date, t, shares, price,
                              port[First(port, t)].buy_price)>>)

ManualSell(ticker, shares, price, port, csh, rng, date) ==
    LET t == Upper(ticker)
    IN  IF NonPositive(shares, price)
        THEN Result(FALSE, MsgInvalid, port, csh, FALSE, << >>)
        ELSE IF Mask(port, t) = {}
        THEN Result(FALSE, MsgUnknown, port, csh, FALSE, << >>)
        ELSE IF ~rng.avail
        THEN Result(FALSE, MsgNoData, port, csh, TRUE, << >>)
        ELSE IF ~InDayRange(price, rng)
        THEN Result(FALSE, MsgOutOfRange, port, csh, TRUE, << >>)
        ELSE IF shares > port[First(port, t)].shares
        THEN Result(FALSE, MsgOverSell, port, csh, TRUE, << >>)
        ELSE Result(TRUE, MsgSold, SoldHoldings(port, t, shares),
                    RAdd(csh, RMul(price, R(shares))), TRUE,
                    <<SellLog(date, t, shares, price,
                              port[First(port, t)].buy_price)>>)

\* ---------------------------------------------------------- Ledger Store
\* Faulty variant: the table is replaced by the new row.
AppendTradeLog_Overwrites(tbl, log) == log

\* append_trade_log: one INSERT, committed on its own connection
AppendTradeLog(tbl, log) == tbl \o log

\* Points at which a store write can raise:
\*   "none"        every write succeeds
\*   "log"         the INSERT into trade_log raises
\*   "save_early"  save_portfolio_snapshot raises before anything is committed
\*   "save_late"   save_portfolio_snapshot raises after the holdings rows
\*                 were inserted (to_sql commits them), before cash and
\*                 history are written
Faults == {"none", "log", "save_early", "save_late"}

\* Faulty variant: the holdings are inserted without the DELETE before.
SavedPortfolio_NoDelete(port, f) ==
    IF f = "none" THEN dbPortfolio \o port ELSE dbPortfolio

\* The tables save_portfolio_snapshot(port, csh) leaves when the store
\* ends at f.  DELETE FROM portfolio; INSERT the frame's rows:
SavedPortfolio(port, f) ==
    IF f = "none" \/ (f = "save_late" /\ port # << >>) THEN port ELSE dbPortfolio

\* Faulty variant: the cash row is not written.
SavedCash_Skipped(csh, f) == dbCash

\* INSERT OR REPLACE INTO cash (id, balance) VALUES (0, cash)
SavedCash(csh, f) == IF f = "none" THEN <<csh>> ELSE dbCash

\* DELETE FROM portfolio_history WHERE date = TODAY; INSERT the snapshot
SavedHistory(port, csh, frame, date, f) ==
    IF f = "none"
    THEN ReplaceHistory(dbHistory, SnapshotRows(port, csh, frame, date), date)
    ELSE dbHistory

\* ------------------------------------------------------ legacy CSV file
\* The flat file of the CSV variant of the program holds the rows of
\* portfolio_history under the headers Date, Ticker, Shares, Cost Basis, ...:
\* its save_portfolio_snapshot keeps the rows of other dates and appends
\* the day's rows.  to_csv writes "" as an empty field and read_csv reads an
\* empty field as NaN; numbers and dates come back as written.
ReadCsvCell(x) == IF x = Blank THEN NaN ELSE x

ReadCsv(file) ==
    [i \in 1..Len(file) |->
        [date |-> file[i].date, ticker |-> file[i].ticker,
         action |-> file[i].action,
         shares |-> ReadCsvCell(file[i].shares),
         cost_basis |-> ReadCsvCell(file[i].cost_basis),
         stop_loss |-> ReadCsvCell(file[i].stop_loss),
         current_price |-> ReadCsvCell(file[i].current_price),
         total_value |-> ReadCsvCell(file[i].total_value),
         pnl |-> ReadCsvCell(file[i].pnl),
         cash_balance |-> ReadCsvCell(file[i].cash_balance),
         total_equity |-> ReadCsvCell(file[i].total_equity)]]

IsTotal(r) == r.ticker = "TOTAL"

NotTotal(r) == r.ticker # "TOTAL"

\* non_total["Date"].max()
MaxDate(rows) ==
    CHOOSE d \in {rows[i].date : i \in 1..Len(rows)} :
        \A i \in 1..Len(rows) : rows[i].date <= d

\* the holding a non-TOTAL row is renamed into: "Cost Basis" becomes
\* buy_price and cost_basis is shares * buy_price
LatestHolding(r) ==
    Holding(r.ticker, r.shares.n, r.stop_loss, r.cost_basis,
            RMul(r.shares, r.cost_basis))

\* load_portfolio of the CSV variant (and migrate): the holdings are the
\* non-TOTAL rows of the latest date that has any, the cash is the Cash
\* Balance of the TOTAL row of the latest date
LoadCsv(df) ==
    LET non_total == SelectSeq(df, NotTotal)
        total_rows == SelectSeq(df, IsTotal)
        latest_date == MaxDate(non_total)
        OnLatest(r) == r.date = latest_date
        latest == SelectSeq(non_total, OnLatest)
        last_total ==
            CHOOSE i \in 1..Len(total_rows) :
                total_rows[i].date = MaxDate(total_rows)
    IN  [portfolio |->
             IF non_total = << >> THEN << >>
             ELSE [i \in 1..Len(latest) |-> LatestHolding(latest[i])],
         cash |-> IF total_rows = << >> THEN R(0)
                  ELSE total_rows[last_total].cash_balance,
         needs_cash |-> df = << >> \/ total_rows = << >>]

\* --------------------------------------------------------- ensure_schema
\* A frame: its column labels in order, and its rows, each a function of
\* the labels.  The labels of a frame the program builds are distinct.
PORTFOLIO_COLUMNS == <<"ticker", "shares", "stop_loss", "buy_price", "cost_basis">>

Table(cols, rows) == [cols |-> cols, rows |-> rows]

EmptyTable == Table(<< >>, << >>)

Labels(cols) == {cols[i] : i \in 1..Len(cols)}

\* 0.0 if col != "ticker" else ""
Fill(col) == IF col # "ticker" THEN R(0) ELSE ""

\* df[cols]: the frame's columns of these labels, in the order asked for
Select(t, cols) ==
    Table(cols, [i \in 1..Len(t.rows) |-> [c \in Labels(cols) |-> t.rows[i][c]]])

\* Faulty variant: the columns come back in the frame's own order.
Selected_AsFound(t) ==
    LET Wanted(c) == c \in Labels(PORTFOLIO_COLUMNS)
    IN  Select(t, SelectSeq(t.cols, Wanted))

\* df[PORTFOLIO_COLUMNS].copy()
Selected(t) == Select(t, PORTFOLIO_COLUMNS)

\* ensure_schema(df): df is the frame passed, with the columns the loop
\* added to it; out is the frame returned.
EnsureSchema(t) ==
    LET Missing(c) == c \notin Labels(t.cols)
        added == SelectSeq(PORTFOLIO_COLUMNS, Missing)
        cols == t.cols \o added
        df == Table(cols,
                    [i \in 1..Len(t.rows) |->
                        [c \in Labels(cols) |->
                            IF c \in Labels(t.cols) THEN t.rows[i][c]
                            ELSE Fill(c)]])
    IN  [df |-> df, out |-> Selected(df)]

\* The frames passed: any choice of the five columns and one more, in
\* schema order or reversed, with no row, one or two.
ColumnInputs == <<"note", "ticker", "shares", "stop_loss", "buy_price", "cost_basis">>

Reversed(seq) == [i \in 1..Len(seq) |-> seq[Len(seq) + 1 - i]]

Cell(c, k) ==
    IF c = "ticker" THEN (IF k = 1 THEN "ABC" ELSE "XYZ")
    ELSE IF c = "shares" THEN R(10 * k)
    ELSE IF c = "stop_loss" THEN R(400 * k)
    ELSE IF c = "buy_price" THEN R(500 * k)
    ELSE IF c = "cost_basis" THEN R(5000 * k * k)
    ELSE R(k)

MaxRows == 2

TableInputs ==
    LET Chosen(labels) ==
            LET In(c) == c \in labels IN SelectSeq(ColumnInputs, In)
        Filled(cols, n) ==
            Table(cols, [k \in 1..n |-> [c \in Labels(cols) |-> Cell(c, k)]])
    IN  UNION { {Filled(Chosen(labels), n), Filled(Reversed(Chosen(labels)), n)} :
                  labels \in SUBSET Labels(ColumnInputs), n \in 0..MaxRows }

NotCalled(t) == [called |-> FALSE, arg |-> t, df |-> t, out |-> EmptyTable]

\* ------------------------------------------------------- second session
NoSession ==
    [active |-> FALSE, portfolio |-> << >>, cash |-> R(0), needs_cash |-> TRUE]

\* ------------------------------------------------------------ call record
\* the day range of a call that never asked for it
NotAsked == [avail |-> FALSE, high |-> Blank, low |-> Blank]

NoArgs ==
    [ticker |-> "", shares |-> 0, price |-> R(0), stop |-> R(0), rng |-> NotAsked]

\* the arguments of a cash form: the amount typed is kept as its price
Typed(amount) == [NoArgs EXCEPT !.price = amount]

Pre ==
    [portfolio |-> portfolio, cash |-> cash, dbPortfolio |-> dbPortfolio,
     dbCash |-> dbCash, dbTradeLog |-> dbTradeLog, dbHistory |-> dbHistory]

Call(op, args, ok, raised, msg, queried, retPort, retCash) ==
    [op |-> op, args |-> args, ok |-> ok, raised |-> raised, msg |-> msg,
     queried |-> queried, ret |-> [portfolio |-> retPort, cash |-> retCash],
     pre |-> Pre]

\* No call is in progress: the page has been rendered and its feedback shown.
Idle ==
    [op |-> "idle", args |-> NoArgs, ok |-> TRUE, raised |-> FALSE,
     msg |-> "", queried |-> FALSE,
     ret |-> [portfolio |-> << >>, cash |-> R(0)],
     pre |-> [portfolio |-> << >>, cash |-> R(0), dbPortfolio |-> << >>,
              dbCash |-> << >>, dbTradeLog |-> << >>, dbHistory |-> << >>]]

\* ----------------------------------------------------------------- Init
\* A fresh process on an empty database: load_portfolio finds no holdings
\* and no cash row.
Init ==
    /\ portfolio = << >>
    /\ cash = R(0)
    /\ needs_cash = TRUE
    /\ dbPortfolio = << >>
    /\ dbCash = << >>
    /\ dbTradeLog = << >>
    /\ dbHistory = << >>
    /\ today = 1
    /\ quotes = [cached |-> FALSE, key |-> << >>, frame |-> EmptyFrame]
    /\ call = Idle
    /\ other = NoSession
    /\ schema = NotCalled(EmptyTable)

\* -------------------------------------------------------------- actions
\* The frames fetch_prices(tickers) can return.  fresh: the entry cached for
\* the list may have expired (ttl 300 s), so the provider may be asked again;
\* otherwise a list that was just asked for is answered from the cache.
Fetched(tickers, fresh) ==
    IF ~fresh /\ quotes.cached /\ quotes.key = tickers
    THEN {quotes.frame}
    ELSE {FetchPrices(tickers, data) : data \in QuoteInputs}

Cached(tickers, frame) == [cached |-> TRUE, key |-> tickers, frame |-> frame]

\* The "Initialize Portfolio" form of the dashboard, with the amount typed
\* drawn from the given set.
InitCashWith(amounts) ==
    /\ call = Idle
    /\ needs_cash
    /\ \E amount \in amounts :
         IF RLe(amount, R(0))
         THEN /\ call' = Call("init", Typed(amount), FALSE, FALSE,
                              "Please enter a positive number.", FALSE,
                              portfolio, cash)
              /\ UNCHANGED <<portfolio, cash, needs_cash, dbVars, today, quotes, apart>>
         ELSE \E frame \in Fetched(Tickers(portfolio), TRUE) :
                    /\ cash' = amount
                    /\ needs_cash' = FALSE
                    /\ dbPortfolio' = SavedPortfolio(portfolio, "none")
                    /\ dbCash' = SavedCash(amount, "none")
                    /\ dbHistory' = SavedHistory(portfolio, amount, frame,
                                                 today, "none")
                    /\ quotes' = Cached(Tickers(portfolio), frame)
                    /\ call' = Call("init", Typed(amount), TRUE, FALSE,
                                    "Starting cash recorded.", FALSE,
                                    portfolio, amount)
                    /\ UNCHANGED <<portfolio, dbTradeLog, today, apart>>

InitCash == InitCashWith(StartCashInputs)

\* A trade call that returned res, with the store ending at fault point f.
\* inPlace: the call changed the caller's frame itself (DataFrame.at)
\* rather than building a new one.
Trade(op, args, res, inPlace, f) ==
    LET wrote == res.save /\ f # "log"
        done == res.ok /\ f = "none"
    IN  /\ dbTradeLog' = IF f = "log" THEN dbTradeLog
                         ELSE AppendTradeLog(dbTradeLog, res.log)
        /\ IF wrote
           THEN \E frame \in Fetched(Tickers(res.portfolio), TRUE) :
                      /\ dbPortfolio' = SavedPortfolio(res.portfolio, f)
                      /\ dbCash' = SavedCash(res.cash, f)
                      /\ dbHistory' = SavedHistory(res.portfolio, res.cash,
                                                   frame, today, f)
                      /\ quotes' = Cached(Tickers(res.portfolio), frame)
           ELSE UNCHANGED <<dbPortfolio, dbCash, dbHistory, quotes>>
        /\ portfolio' = IF done \/ (wrote /\ inPlace) THEN res.portfolio
                        ELSE portfolio
        /\ cash' = IF done THEN res.cash ELSE cash
        /\ call' = IF f = "none"
                   THEN Call(op, args, res.ok, FALSE, res.msg, res.queried,
                             res.portfolio, res.cash)
                   ELSE Call(op, args, FALSE, TRUE, MsgStore, res.queried,
                             portfolio', cash)
        /\ UNCHANGED <<needs_cash, today, apart>>

\* The answers get_day_high_low(ticker) can give to a call; a call that
\* returns before asking gets none.
AskedOf(queries, ranges) == IF queries THEN ranges ELSE {NotAsked}

\* submit_buy -> manual_buy, with the form's values and the provider's answer
\* drawn from the given sets
BuyIn(f, tickersIn, sharesIn, pricesIn, stopsIn, rangesIn) ==
    /\ call = Idle
    /\ ~needs_cash
    /\ Len(dbTradeLog) < MaxTrades
    /\ \E ticker \in tickersIn, shares \in sharesIn, price \in pricesIn,
          stop \in stopsIn :
       \E rng \in AskedOf(ManualBuy(ticker, shares, price, stop, portfolio,
                                    cash, NoData, today).queried, rangesIn) :
       \E res \in {ManualBuy(ticker, shares, price, stop, portfolio, cash,
                              rng, today)} :
         LET args == [ticker |-> ticker, shares |-> shares, price |-> price,
                      stop |-> stop, rng |-> rng]
             inPlace == Mask(portfolio, Upper(ticker)) # {}
         IN  /\ f # "none" => res.save
             /\ Trade("buy", args, res, inPlace, f)

BuyWith(f, tickersIn, sharesIn, pricesIn, stopsIn) ==
    BuyIn(f, tickersIn, sharesIn, pricesIn, stopsIn, RangeInputs)

Buy(f) == BuyWith(f, TickerInputs, ShareInputs, PriceInputs, StopInputs)

\* submit_sell -> manual_sell, with the form's values and the provider's
\* answer drawn from the given sets
SellIn(f, tickersIn, sharesIn, pricesIn, rangesIn) ==
    /\ call = Idle
    /\ ~needs_cash
    /\ Len(dbTradeLog) < MaxTrades
    /\ \E ticker \in tickersIn, shares \in sharesIn, price \in pricesIn :
       \E rng \in AskedOf(ManualSell(ticker, shares, price, portfolio, cash,
                                     NoData, today).queried, rangesIn) :
       \E res \in {ManualSell(ticker, shares, price, portfolio, cash, rng,
                                today)} :
         LET args == [ticker |-> ticker, shares |-> shares, price |-> price,
                      stop |-> R(0), rng |-> rng]
             inPlace == res.portfolio # << >>
                        /\ Len(res.portfolio) = Len(portfolio)
         IN  /\ f # "none" => res.save
             /\ Trade("sell", args, res, inPlace, f)

SellWith(f, tickersIn, sharesIn, pricesIn) ==
    SellIn(f, tickersIn, sharesIn, pricesIn, RangeInputs)

Sell(f) == SellWith(f, TickerInputs, ShareInputs, PriceInputs)

\* A script run of render_dashboard: it pops the feedback and, once the
\* starting cash is set, revalues the session's holdings.  It follows every
\* callback at once (call # Idle); from an idle page it is a press of the
\* refresh button or the refresh timer, any time later.
Render(f) ==
    /\ f # "log"
    /\ call' = Idle
    /\ IF needs_cash
       THEN /\ f = "none"
            /\ call # Idle
            /\ UNCHANGED <<portfolio, cash, needs_cash, dbVars, today, quotes, apart>>
       ELSE \E frame \in Fetched(Tickers(portfolio), call = Idle) :
                  /\ dbPortfolio' = SavedPortfolio(portfolio, f)
                  /\ dbCash' = SavedCash(cash, f)
                  /\ dbHistory' = SavedHistory(portfolio, cash, frame, today, f)
                  /\ quotes' = Cached(Tickers(portfolio), frame)
                  /\ UNCHANGED <<portfolio, cash, needs_cash, dbTradeLog, today,
                               apart>>

\* submit_cash: the "Add Cash" form of the dashboard.
AddCash ==
    /\ call = Idle
    /\ ~needs_cash
    /\ \E amount \in DepositInputs :
         IF RLe(amount, R(0))
         THEN /\ call' = Call("deposit", Typed(amount), FALSE, FALSE,
                              "Amount must be greater than zero.", FALSE,
                              portfolio, cash)
              /\ UNCHANGED <<portfolio, cash, needs_cash, dbVars, today, quotes, apart>>
         ELSE /\ RLe(RAdd(cash, amount), R(MaxCash))
              /\ \E frame \in Fetched(Tickers(portfolio), TRUE) :
                    /\ cash' = RAdd(cash, amount)
                    /\ dbPortfolio' = SavedPortfolio(portfolio, "none")
                    /\ dbCash' = SavedCash(cash', "none")
                    /\ dbHistory' = SavedHistory(portfolio, cash', frame,
                                                 today, "none")
                    /\ quotes' = Cached(Tickers(portfolio), frame)
                    /\ call' = Call("deposit", Typed(amount), TRUE, FALSE,
                                    "Added to cash balance.", FALSE,
                                    portfolio, cash')
                    /\ UNCHANGED <<portfolio, needs_cash, dbTradeLog, today, apart>>

\* load_portfolio: the holdings, the cash balance and the "needs cash" flag
\* a new session starts from.
LoadPortfolio ==
    IF dbPortfolio = << >> /\ dbCash = << >>
    THEN [portfolio |-> << >>, cash |-> R(0), needs_cash |-> TRUE]
    ELSE [portfolio |-> dbPortfolio,
          cash |-> IF dbCash # << >> THEN dbCash[1] ELSE R(0),
          needs_cash |-> dbPortfolio = << >>]

\* The process is started again, the same day or the next: config.TODAY is
\* evaluated anew, the cache of fetch_prices is empty and init_session_state
\* loads the session from the store.
Restart ==
    /\ call = Idle
    /\ \E d \in {today, today + 1} :
         /\ d <= MaxDay
         /\ today' = d
    /\ portfolio' = LoadPortfolio.portfolio
    /\ cash' = LoadPortfolio.cash
    /\ needs_cash' = LoadPortfolio.needs_cash
    /\ quotes' = [cached |-> FALSE, key |-> << >>, frame |-> EmptyFrame]
    /\ call' = Call("load", NoArgs, TRUE, FALSE, "", FALSE,
                    portfolio', cash')
    /\ UNCHANGED <<dbVars, apart>>

Next == InitCash \/ Buy("none") \/ Sell("none") \/ Render("none")

Spec == Init /\ [][Next]_vars

\* The ledger over several days: deposits and restarts as well as trades,
\* the trades at one price and without a stop.
LedgerBuy ==
    BuyWith("none", LedgerTickers, LedgerShares, LedgerPrices, LedgerStops)

LedgerSell == SellWith("none", LedgerTickers, LedgerShares, LedgerPrices)

NextLedger ==
    InitCash \/ LedgerBuy \/ LedgerSell \/ Render("none") \/ AddCash \/ Restart

SpecLedger == Init /\ [][NextLedger]_vars

\* The same program on a store whose writes can fail, the trades at one
\* price and without a stop.
NextFault ==
    \/ InitCash
    \/ \E f \in Faults :
         BuyWith(f, LedgerTickers, LedgerShares, LedgerPrices, LedgerStops)
    \/ \E f \in Faults :
         SellWith(f, LedgerTickers, LedgerShares, LedgerPrices)
    \/ \E f \in Faults : Render(f)

SpecFault == Init /\ [][NextFault]_vars

\* ensure_schema on its own: any frame is passed to it once.
InitSchema ==
    /\ portfolio = << >>
    /\ cash = R(0)
    /\ needs_cash = TRUE
    /\ dbPortfolio = << >>
    /\ dbCash = << >>
    /\ dbTradeLog = << >>
    /\ dbHistory = << >>
    /\ today = 1
    /\ quotes = [cached |-> FALSE, key |-> << >>, frame |-> EmptyFrame]
    /\ call = Idle
    /\ other = NoSession
    /\ \E t \in TableInputs : schema = NotCalled(t)

CallEnsureSchema ==
    /\ ~schema.called
    /\ schema' = [called |-> TRUE, arg |-> schema.arg,
                  df |-> EnsureSchema(schema.arg).df,
                  out |-> EnsureSchema(schema.arg).out]
    /\ UNCHANGED <<portfolio, cash, needs_cash, dbVars, today, quotes, call,
                   other>>

NextSchema == CallEnsureSchema

SpecSchema == InitSchema /\ [][NextSchema]_vars

\* One ticker traded at two prices, with deposits: the money that comes in
\* and the profit and loss that is realized.
CashTickers == {"ABC"}

CashBuy == BuyWith("none", CashTickers, ShareInputs, PriceInputs, LedgerStops)

CashSell == SellWith("none", CashTickers, ShareInputs, PriceInputs)

NextCash == InitCash \/ CashBuy \/ CashSell \/ Render("none") \/ AddCash

SpecCash == Init /\ [][NextCash]_vars

\* A second session is opened on the same store: init_session_state loads
\* its own holdings and cash, and its first script run revalues them.
OtherOpen ==
    /\ ~other.active
    /\ other' = [active |-> TRUE, portfolio |-> LoadPortfolio.portfolio,
                 cash |-> LoadPortfolio.cash,
                 needs_cash |-> LoadPortfolio.needs_cash]
    /\ IF other'.needs_cash
       THEN UNCHANGED <<dbPortfolio, dbCash, dbHistory, quotes>>
       ELSE \E frame \in Fetched(Tickers(other'.portfolio), TRUE) :
                  /\ dbPortfolio' = SavedPortfolio(other'.portfolio, "none")
                  /\ dbCash' = SavedCash(other'.cash, "none")
                  /\ dbHistory' = SavedHistory(other'.portfolio, other'.cash,
                                               frame, today, "none")
                  /\ quotes' = Cached(Tickers(other'.portfolio), frame)
    /\ UNCHANGED <<portfolio, cash, needs_cash, dbTradeLog, today, call,
                   schema>>

\* A later script run of the second session (refresh button or timer): it
\* saves the snapshot of the holdings and cash that session has in memory.
OtherRender ==
    /\ other.active
    /\ ~other.needs_cash
    /\ \E frame \in Fetched(Tickers(other.portfolio), TRUE) :
          /\ dbPortfolio' = SavedPortfolio(other.portfolio, "none")
          /\ dbCash' = SavedCash(other.cash, "none")
          /\ dbHistory' = SavedHistory(other.portfolio, other.cash, frame,
                                       today, "none")
          /\ quotes' = Cached(Tickers(other.portfolio), frame)
    /\ UNCHANGED <<portfolio, cash, needs_cash, dbTradeLog, today, call,
                   other, schema>>

NextShared ==
    \/ InitCash \/ LedgerBuy \/ LedgerSell \/ Render("none")
    \/ OtherOpen \/ OtherRender

SpecShared == Init /\ [][NextShared]_vars

\* The worked example of the trade rules: 1000.00 to start with, ABC bought
\* at 5.00 and at 7.00, sold at 6.50.
ScenarioCash == {R(100000)}

ScenarioShares == {10, 20}

ScenarioBuyPrices == {R(500), R(700)}

ScenarioSellPrices == {R(650)}

ScenarioStops == {R(0), R(400)}

ScenarioRanges == {DayRange(600, 400), DayRange(700, 500)}

ScenarioInit == InitCashWith(ScenarioCash)

ScenarioBuy ==
    BuyIn("none", {"ABC"}, ScenarioShares, ScenarioBuyPrices, ScenarioStops,
          ScenarioRanges)

ScenarioSell ==
    SellIn("none", {"ABC"}, ScenarioShares, ScenarioSellPrices, ScenarioRanges)

NextScenario == ScenarioInit \/ ScenarioBuy \/ ScenarioSell \/ Render("none")

SpecScenario == Init /\ [][NextScenario]_vars

\* ================================================================ claims
\* What the statements below read: the arguments and the pre-state of the
\* last call, written with plain arithmetic only.
Ticker == IF call.args.ticker = "abc" THEN "ABC" ELSE call.args.ticker

Amount == RMul(call.args.price, R(call.args.shares))

Rows(port, t) == {i \in 1..Len(port) : port[i].ticker = t}

HeldBefore == Rows(call.pre.portfolio, Ticker) # {}

RowBefore == call.pre.portfolio[CHOOSE i \in Rows(call.pre.portfolio, Ticker) : TRUE]

Positive == call.args.shares > 0 /\ RLt(R(0), call.args.price)

WithinRange ==
    /\ call.args.rng.avail
    /\ RLe(call.args.rng.low, call.args.price)
    /\ RLe(call.args.price, call.args.rng.high)

ValidBuy ==
    call.op = "buy" /\ Positive /\ WithinRange /\ RLe(Amount, call.pre.cash)

ValidSell ==
    /\ call.op = "sell" /\ Positive /\ HeldBefore /\ WithinRange
    /\ call.args.shares <= RowBefore.shares

\* every row of the session's holdings but those of Ticker is as before
OthersUnchanged ==
    /\ Len(portfolio) = Len(call.pre.portfolio)
    /\ \A i \in 1..Len(portfolio) :
         call.pre.portfolio[i].ticker # Ticker
            => portfolio[i] = call.pre.portfolio[i]

Returned == call.ret.portfolio = portfolio /\ call.ret.cash = cash

StoreUnchanged ==
    /\ dbPortfolio = call.pre.dbPortfolio
    /\ dbCash = call.pre.dbCash
    /\ dbTradeLog = call.pre.dbTradeLog
    /\ dbHistory = call.pre.dbHistory

SessionUnchanged ==
    /\ portfolio = call.pre.portfolio
    /\ cash = call.pre.cash
    /\ call.ret.portfolio = call.pre.portfolio
    /\ call.ret.cash = call.pre.cash

\* C1: a valid Buy of a ticker not held succeeds, takes exactly
\* shares*price from cash and appends one Holding (upper-cased ticker,
\* shares, buy_price = price, stop_loss = stop, cost_basis = shares*price),
\* leaving every other Holding as it was.
C1_BuyOpensHolding ==
    (ValidBuy /\ ~HeldBefore) =>
        /\ call.ok
        /\ Returned
        /\ cash = RSub(call.pre.cash, Amount)
        /\ portfolio =
             Append(call.pre.portfolio,
                    [ticker |-> Ticker, shares |-> call.args.shares,
                     stop_loss |-> call.args.stop,
                     buy_price |-> call.args.price, cost_basis |-> Amount])

C1_Witness ==
    /\ call.op = "buy" /\ call.ok /\ ~HeldBefore
    /\ call.args.ticker = "abc"
    /\ call.args.shares = 20
    /\ call.pre.portfolio # << >>

\* C2: a valid Buy of a held ticker merges into the existing Holding:
\* shares and cost_basis add up, buy_price is the new cost_basis over the
\* new shares, stop_loss is the new stop whatever the old one was; no row
\* is added.
C2_BuyMerges ==
    (ValidBuy /\ HeldBefore) =>
        /\ call.ok
        /\ Returned
        /\ OthersUnchanged
        /\ Cardinality(Rows(portfolio, Ticker)) = 1
        /\ \A i \in Rows(portfolio, Ticker) :
             LET old == call.pre.portfolio[i]
                 cb == RAdd(old.cost_basis, Amount)
                 sh == old.shares + call.args.shares
             IN  portfolio[i] =
                   [ticker |-> Ticker, shares |-> sh,
                    stop_loss |-> call.args.stop,
                    buy_price |-> RDiv(cb, R(sh)), cost_basis |-> cb]

C2_Witness ==
    /\ call.op = "buy" /\ call.ok /\ HeldBefore
    /\ RowBefore.stop_loss # call.args.stop
    /\ RowBefore.buy_price # call.args.price
    /\ Len(portfolio) = 2

\* C3: a valid Sell of all the shares held removes the Holding, leaves the
\* others as they were and adds exactly shares*price to cash.
C3_SellAllRemoves ==
    (ValidSell /\ call.args.shares = RowBefore.shares) =>
        LET Other(h) == h.ticker # Ticker
        IN  /\ call.ok
            /\ Returned
            /\ Rows(portfolio, Ticker) = {}
            /\ portfolio = SelectSeq(call.pre.portfolio, Other)
            /\ cash = RAdd(call.pre.cash, Amount)

C3_Witness ==
    /\ call.op = "sell" /\ call.ok
    /\ call.args.shares = RowBefore.shares
    /\ Len(call.pre.portfolio) = 2
    /\ Len(portfolio) = 1

\* C4: a valid Sell of fewer shares than held keeps the Holding with
\* shares = held - sold, the same buy_price and stop_loss and
\* cost_basis = remaining shares * buy_price, and adds shares*price to cash.
C4_SellPartReduces ==
    (ValidSell /\ call.args.shares < RowBefore.shares) =>
        /\ call.ok
        /\ Returned
        /\ OthersUnchanged
        /\ cash = RAdd(call.pre.cash, Amount)
        /\ \A i \in Rows(call.pre.portfolio, Ticker) :
             LET old == call.pre.portfolio[i]
                 left == old.shares - call.args.shares
             IN  portfolio[i] =
                   [ticker |-> Ticker, shares |-> left,
                    stop_loss |-> old.stop_loss, buy_price |-> old.buy_price,
                    cost_basis |-> RMul(R(left), old.buy_price)]

C4_Witness ==
    /\ call.op = "sell" /\ call.ok
    /\ call.args.shares < RowBefore.shares
    /\ RowBefore.buy_price.d # 1
    /\ RowBefore.stop_loss # R(0)

\* C5: a successful Sell appends exactly one trade_log row with
\* cost_basis = buy_price*shares and pnl = price*shares - buy_price*shares
\* for the Holding's buy_price before the sell; a successful Buy appends
\* exactly one row with pnl = 0 and cost_basis = price*shares.
C5_TradeLogEntry ==
    (call.op \in {"buy", "sell"} /\ call.ok) =>
        /\ Len(dbTradeLog) = Len(call.pre.dbTradeLog) + 1
        /\ SubSeq(dbTradeLog, 1, Len(call.pre.dbTradeLog)) = call.pre.dbTradeLog
        /\ LET e == dbTradeLog[Len(dbTradeLog)]
               basis == RMul(RowBefore.buy_price, R(call.args.shares))
           IN  /\ e.ticker = Ticker
               /\ IF call.op = "sell"
                  THEN /\ e.cost_basis = basis
                       /\ e.pnl = RSub(Amount, basis)
                       /\ e.shares_sold = R(call.args.shares)
                       /\ e.sell_price = call.args.price
                  ELSE /\ e.cost_basis = Amount
                       /\ e.pnl = R(0)
                       /\ e.shares_bought = R(call.args.shares)
                       /\ e.buy_price = call.args.price

C5_Witness ==
    /\ call.op = "sell" /\ call.ok
    /\ RowBefore.buy_price \notin PriceInputs
    /\ dbTradeLog[Len(dbTradeLog)].pnl # R(0)

FailureMessages ==
    {MsgInvalid, MsgNoData, MsgOutOfRange, MsgInsufficient, MsgUnknown,
     MsgOverSell}

\* C6: a Buy or Sell that fails a precondition returns failure with one of
\* the failure messages, hands back the caller's holdings and cash as they
\* were, and leaves the four tables as they were.
C6_FailureChangesNothing ==
    (call.op \in {"buy", "sell"} /\ ~call.ok) =>
        /\ call.msg \in FailureMessages
        /\ SessionUnchanged
        /\ StoreUnchanged

C6_Witness ==
    /\ call.op = "buy" /\ ~call.ok
    /\ call.msg = MsgInsufficient
    /\ dbTradeLog # << >>
    /\ Len(dbHistory) > 1

\* C7: after a Buy or Sell has ended, by returning or by a store error,
\* the trade_log row, the holdings change, the cash change and the snapshot
\* of that trade are all in the store or none of them is.
C7_AllOrNothing ==
    call.op \in {"buy", "sell"} =>
        LET logged == dbTradeLog # call.pre.dbTradeLog
            held == dbPortfolio # call.pre.dbPortfolio
            paid == dbCash # call.pre.dbCash
            valued == dbHistory # call.pre.dbHistory
        IN  \/ logged /\ held /\ paid /\ valued
            \/ ~logged /\ ~held /\ ~paid /\ ~valued

\* C8: a Buy or Sell with shares <= 0 or price <= 0 fails with "Shares and
\* price must be positive.", never asks for the day range and changes
\* nothing.
C8_NonPositiveRejected ==
    (call.op \in {"buy", "sell"}
        /\ (call.args.shares <= 0 \/ RLe(call.args.price, R(0)))) =>
        /\ ~call.ok
        /\ call.msg = MsgInvalid
        /\ ~call.queried
        /\ call.args.rng = NotAsked
        /\ SessionUnchanged
        /\ StoreUnchanged

C8_Witness ==
    /\ call.op = "sell" /\ call.msg = MsgInvalid
    /\ call.args.shares > 0
    /\ HeldBefore
    /\ call.args.shares <= RowBefore.shares

\* C9: the day-range check is inclusive: an otherwise valid Buy or Sell at
\* price = dayLow or price = dayHigh succeeds; an otherwise valid one a cent
\* below dayLow or a cent above dayHigh fails with the out-of-range message.
C9_RangeInclusive ==
    LET p == call.args.price
        r == call.args.rng
        onEdge == p = r.low \/ p = r.high
        centOff == p = RSub(r.low, R(1)) \/ p = RAdd(r.high, R(1))
    IN  /\ ((ValidBuy \/ ValidSell) /\ onEdge) => call.ok
        /\ (/\ call.op \in {"buy", "sell"} /\ Positive /\ r.avail /\ centOff
            /\ call.op = "sell" => HeldBefore)
              => (~call.ok /\ call.msg = MsgOutOfRange)

C9_Witness ==
    /\ call.op = "sell" /\ call.ok
    /\ call.args.price = call.args.rng.high
    /\ call.args.price # call.args.rng.low

\* C10: a Buy whose cost price*shares exceeds cash fails (with the
\* insufficient-cash message when its other checks pass) and writes no
\* trade_log row; a Buy whose cost is at most cash, cost = cash included,
\* is not rejected for funds.
C10_FundsCheck ==
    call.op = "buy" =>
        /\ RLt(call.pre.cash, Amount) =>
             (~call.ok /\ dbTradeLog = call.pre.dbTradeLog)
        /\ (Positive /\ WithinRange /\ RLt(call.pre.cash, Amount)) =>
             call.msg = MsgInsufficient
        /\ RLe(Amount, call.pre.cash) => call.msg # MsgInsufficient
        /\ (ValidBuy /\ Amount = call.pre.cash) => (call.ok /\ cash = R(0))

C10_Witness ==
    /\ call.op = "buy" /\ call.ok
    /\ Amount = call.pre.cash
    /\ cash = R(0)

\* C11: whatever initialization, deposits, trades, valuations and restarts
\* have run, the cash balance is never negative, in the session and in the
\* cash table.
C11_CashNeverNegative ==
    /\ cash.n >= 0
    /\ \A i \in 1..Len(dbCash) : dbCash[i].n >= 0

C11_Witness ==
    /\ call.op = "buy" /\ ~call.ok /\ call.msg = MsgInsufficient
    /\ today = 2
    /\ Len(dbTradeLog) = 2

\* C12: every Holding, in the session and in the portfolio table, has
\* cost_basis = shares * buy_price (exactly, in the arithmetic the code
\* writes down), also after a merge buy and after a partial sell.
CostMatches(h) == h.cost_basis.n * h.buy_price.d = h.shares * h.buy_price.n * h.cost_basis.d

C12_CostBasisDerived ==
    /\ \A i \in 1..Len(portfolio) : CostMatches(portfolio[i])
    /\ \A i \in 1..Len(dbPortfolio) : CostMatches(dbPortfolio[i])

\* a holding merged from buys at two prices and then sold in part
C12_Witness ==
    /\ call.op = "sell" /\ call.ok
    /\ \E i \in 1..Len(portfolio) :
         /\ portfolio[i].ticker = Ticker
         /\ portfolio[i].buy_price.d # 1
         /\ portfolio[i].shares < RowBefore.shares

\* C13: each ticker is held at most once, two spellings that differ only in
\* case being the same ticker, and every Holding has shares > 0: a Holding
\* sold out is removed, not kept with 0 shares.
SameSymbol(a, b) == a = b \/ {a, b} = {"abc", "ABC"}

WellFormed(port) ==
    /\ \A i, j \in 1..Len(port) :
         i # j => ~SameSymbol(port[i].ticker, port[j].ticker)
    /\ \A i \in 1..Len(port) : port[i].shares > 0

C13_OneHoldingPerTicker == WellFormed(portfolio) /\ WellFormed(dbPortfolio)

\* a buy typed in lower case has been merged into the Holding of "ABC",
\* next to a Holding of another ticker
C13_Witness ==
    /\ call.op = "buy" /\ call.ok /\ HeldBefore
    /\ call.args.ticker = "abc"
    /\ Len(portfolio) = 2
    /\ Len(dbTradeLog) = 3

\* C14: the trade log is append-only: every step leaves the rows already in
\* trade_log as they are and in place; a successful Buy or Sell appends
\* exactly one row, and no other step (a failed trade, a deposit, the
\* initialization, a valuation, a restart) appends any.
TradeStep == call = Idle /\ call'.op \in {"buy", "sell"} /\ call'.ok

C14_LogAppendOnly ==
    [][ /\ Len(dbTradeLog') >= Len(dbTradeLog)
        /\ SubSeq(dbTradeLog', 1, Len(dbTradeLog)) = dbTradeLog
        /\ Len(dbTradeLog') =
             IF TradeStep THEN Len(dbTradeLog) + 1 ELSE Len(dbTradeLog) ]_vars

\* a deposit on the second day, with two trades in the log
C14_Witness ==
    /\ call.op = "deposit" /\ call.ok
    /\ today = 2
    /\ Len(dbTradeLog) = 2
    /\ dbTradeLog = call.pre.dbTradeLog

\* C15: the trade log is the audit trail of all cash and share movements:
\* every step that changes the cash balance or the shares of a Holding
\* (the first-run initialization and the load of a new session apart)
\* appends a trade_log row.
SharesOf(port) == [i \in 1..Len(port) |-> <<port[i].ticker, port[i].shares>>]

C15_CashMovesLogged ==
    [][ ( /\ call'.op \notin {"init", "load"}
          /\ cash' # cash \/ SharesOf(portfolio') # SharesOf(portfolio) )
        => Len(dbTradeLog') = Len(dbTradeLog) + 1 ]_vars

\* C16: a valuation that runs again for the same date with the holdings,
\* the cash and the quotes of the valuation before it leaves the portfolio,
\* cash and portfolio_history tables exactly as that valuation left them
\* (the rows it returns are the rows it stores for the date).
RevaluedUnchanged ==
    /\ ~needs_cash
    /\ call' = Idle
    /\ UNCHANGED <<portfolio, cash, today>>
    /\ quotes.cached
    /\ quotes' = quotes

C16_ValuationIdempotent ==
    [][ RevaluedUnchanged =>
          /\ dbPortfolio' = dbPortfolio
          /\ dbCash' = dbCash
          /\ dbHistory' = dbHistory ]_vars

\* two holdings have been valued twice with one quoted and one not
C16_Witness ==
    /\ call = Idle
    /\ Len(portfolio) = 2
    /\ quotes.cached /\ quotes.frame.kind = "multi"
    /\ dbPortfolio = portfolio
    /\ Len(dbHistory) = 3

\* C17: portfolio_history holds at most one row per (date, ticker), and the
\* rows of the date valued last are exactly one row per current Holding, in
\* order, and then the TOTAL row; a ticker sold out earlier that date has
\* no row left for it.
DatedRows(hist, d) ==
    LET OnDate(r) == r.date = d
    IN  SelectSeq(hist, OnDate)

LatestDate == dbHistory[Len(dbHistory)].date

C17_OneRowPerDateTicker ==
    /\ \A i, j \in 1..Len(dbHistory) :
         i # j => <<dbHistory[i].date, dbHistory[i].ticker>>
                    # <<dbHistory[j].date, dbHistory[j].ticker>>
    /\ dbHistory # << >> =>
         LET rows == DatedRows(dbHistory, LatestDate)
         IN  /\ Len(rows) = Len(dbPortfolio) + 1
             /\ \A i \in 1..Len(dbPortfolio) :
                  rows[i].ticker = dbPortfolio[i].ticker
             /\ rows[Len(rows)].ticker = "TOTAL"

\* on the second day a ticker valued that day and the day before is sold out
C17_Witness ==
    /\ call.op = "sell" /\ call.ok
    /\ today = 2
    /\ \E i \in 1..Len(call.pre.dbHistory) :
         call.pre.dbHistory[i].date = 2 /\ call.pre.dbHistory[i].ticker = Ticker
    /\ \E i \in 1..Len(dbHistory) :
         dbHistory[i].date = 1 /\ dbHistory[i].ticker = Ticker
    /\ \A i \in 1..Len(dbHistory) :
         dbHistory[i].date = 2 => dbHistory[i].ticker # Ticker
    /\ portfolio # << >>

\* C18: no step changes a portfolio_history row of a date other than the
\* date being valued: the rows of every other date stay as they are, in
\* order, through later valuations, trades, deposits and restarts.
DatesOf(hist) == {hist[i].date : i \in 1..Len(hist)}

C18_PriorDatesImmutable ==
    [][ \A d \in DatesOf(dbHistory) \cup DatesOf(dbHistory') :
          d # today => DatedRows(dbHistory', d) = DatedRows(dbHistory, d) ]_vars

\* a deposit on the second day rewrites that day's rows next to the two or
\* more rows of the first day
C18_Witness ==
    /\ call.op = "deposit" /\ call.ok
    /\ today = 2
    /\ Len(DatedRows(dbHistory, 1)) >= 2
    /\ DatedRows(dbHistory, 1) = DatedRows(call.pre.dbHistory, 1)
    /\ DatedRows(call.pre.dbHistory, 2) # << >>
    /\ DatedRows(dbHistory, 2) # DatedRows(call.pre.dbHistory, 2)

\* C19: a valuation writes one row per Holding with
\* total_value = round(price*shares, 2), pnl = round((price - buy_price)
\* * shares, 2) and action "HOLD", and then one TOTAL row whose total_value
\* and pnl are the sums over those rows, whose cash_balance is the cash and
\* whose total_equity is that total_value plus the cash.
\* r is x rounded to whole cents (either neighbour on an exact tie)
RoundedTo(x, r) ==
    /\ r.d = 1
    /\ 2 * (x.n - r.n * x.d) <= x.d
    /\ 2 * (r.n * x.d - x.n) <= x.d

RECURSIVE CentsSum(_, _, _)
CentsSum(rows, n, f) == IF n = 0 THEN 0 ELSE rows[n][f].n + CentsSum(rows, n - 1, f)

C19_SnapshotArithmetic ==
    dbHistory # << >> =>
        LET rows == DatedRows(dbHistory, LatestDate)
            n == Len(dbPortfolio)
            total == rows[Len(rows)]
        IN  /\ Len(rows) = n + 1
            /\ \A i \in 1..n :
                 LET h == dbPortfolio[i]
                     r == rows[i]
                     p == r.current_price
                 IN  /\ r.ticker = h.ticker
                     /\ r.shares = [n |-> h.shares, d |-> 1]
                     /\ r.action = "HOLD"
                     /\ RoundedTo([n |-> p.n * h.shares, d |-> p.d],
                                  r.total_value)
                     /\ RoundedTo([n |-> (p.n * h.buy_price.d
                                           - h.buy_price.n * p.d) * h.shares,
                                   d |-> p.d * h.buy_price.d], r.pnl)
            /\ total.ticker = "TOTAL"
            /\ total.total_value = [n |-> CentsSum(rows, n, "total_value"), d |-> 1]
            /\ total.pnl = [n |-> CentsSum(rows, n, "pnl"), d |-> 1]
            /\ <<total.cash_balance>> = dbCash
            /\ total.total_equity =
                 [n |-> total.total_value.n + dbCash[1].n, d |-> dbCash[1].d]

\* a holding whose average price is not a whole number of cents is valued
\* at a quoted price: its P&L had to be rounded
C19_Witness ==
    /\ dbHistory # << >>
    /\ \E i \in 1..Len(dbPortfolio) :
         /\ dbPortfolio[i].buy_price.d # 1
         /\ dbHistory[i].current_price.n > 0
         /\ dbHistory[i].pnl.n * dbPortfolio[i].buy_price.d
              # (dbHistory[i].current_price.n * dbPortfolio[i].buy_price.d
                 - dbPortfolio[i].buy_price.n) * dbPortfolio[i].shares

\* C20: when the batch of quotes is empty, or lacks a close for a ticker or
\* has NaN for it, the valuation still writes a row for every Holding and
\* the TOTAL row; a ticker without a quote is valued at price 0 (with
\* total_value 0 and pnl = -buy_price*shares, rounded) and a ticker with a
\* quote in the same batch at its quoted close.
\* the i-th holding's ticker t has a usable close in the frame
Quoted(frame, t, i) ==
    \/ /\ frame.kind = "multi"
       /\ t \in DOMAIN frame.closes
       /\ frame.closes[t].d > 0
    \/ /\ frame.kind = "single"
       /\ i = 1
       /\ frame.close.d > 0

QuoteOf(frame, t) == IF frame.kind = "multi" THEN frame.closes[t] ELSE frame.close

C20_MissingQuoteIsZero ==
    (quotes.cached /\ dbHistory # << >>) =>
        LET rows == DatedRows(dbHistory, LatestDate)
            n == Len(dbPortfolio)
        IN  /\ Len(rows) = n + 1
            /\ rows[n + 1].ticker = "TOTAL"
            /\ \A i \in 1..n :
                 LET h == dbPortfolio[i]
                     r == rows[i]
                 IN  /\ r.ticker = h.ticker
                     /\ IF Quoted(quotes.frame, h.ticker, i)
                        THEN r.current_price = QuoteOf(quotes.frame, h.ticker)
                        ELSE /\ r.current_price = [n |-> 0, d |-> 1]
                             /\ r.total_value = [n |-> 0, d |-> 1]
                             /\ RoundedTo([n |-> 0 - h.buy_price.n * h.shares,
                                           d |-> h.buy_price.d], r.pnl)

\* two holdings valued from one batch: XYZ has a close, ABC is missing
C20_Witness ==
    /\ quotes.cached /\ quotes.frame.kind = "multi"
    /\ Len(dbPortfolio) = 2
    /\ Len(dbHistory) = 3
    /\ \E i, j \in 1..2 :
         /\ dbHistory[i].ticker = "ABC" /\ dbHistory[i].current_price.n = 0
         /\ dbHistory[i].pnl.n < 0
         /\ dbHistory[j].ticker = "XYZ" /\ dbHistory[j].current_price.n = 555
         /\ j = 2

\* C21: the legacy CSV round trip: whatever trades and valuations have run,
\* over one date or several, reloading the CSV that holds the snapshots
\* yields the holdings of the ledger (as a set) and its cash, also when the
\* ledger has no holdings left after an earlier date had some.
HoldingSet(port) == {port[i] : i \in 1..Len(port)}

C21_CsvRoundTrip ==
    dbHistory # << >> =>
        LET loaded == LoadCsv(ReadCsv(dbHistory))
        IN  /\ HoldingSet(loaded.portfolio) = HoldingSet(dbPortfolio)
            /\ <<loaded.cash>> = dbCash

\* C22: a load reports that the starting cash is needed exactly when the
\* store holds no holdings and no cash record; once a cash record exists no
\* later load asks for the starting cash again, even with no holdings.
C22_NeedsInitOnlyWhenEmpty ==
    call.op = "load" =>
        (needs_cash <=> (dbPortfolio = << >> /\ dbCash = << >>))

\* C23: in one session, after every completed operation the persisted
\* holdings are the session's holdings and the persisted cash is the
\* session's cash, so a load after a restart returns what the session had.
C23_StoreMatchesSession ==
    /\ dbPortfolio = portfolio
    /\ dbCash # << >> => dbCash = <<cash>>
    /\ ~needs_cash => dbCash # << >>
    /\ LoadPortfolio.portfolio = portfolio
    /\ LoadPortfolio.cash = cash

C23_Witness ==
    /\ call.op = "sell"
    /\ call.ok
    /\ portfolio # << >>
    /\ portfolio # call.pre.portfolio
    /\ dbPortfolio = portfolio
    /\ dbCash = <<cash>>
    /\ cash # call.pre.cash

\* C24: the worked example.  From 1000.00 and no holdings, Buy(ABC, 10,
\* 5.00, stop 4.00) with the day range [4, 6] gives cash 950.00 and
\* Holding(ABC, 10, buy_price 5.00, cost_basis 50.00); Buy(ABC, 10, 7.00)
\* in range then gives Holding(ABC, 20, cost_basis 120.00, buy_price 6.00);
\* Sell(ABC, 20, 6.50) in range then removes the Holding and records the
\* P&L 10.00.  The cash it leaves is 1010.00.
IsCall(op, shares, price) ==
    /\ call.op = op
    /\ call.args.ticker = "ABC"
    /\ call.args.shares = shares
    /\ call.args.price = price
    /\ WithinRange

\* the one Holding of ABC with these shares, price and cost
OnlyABC(port, shares, buy_price, cost_basis) ==
    /\ Len(port) = 1
    /\ port[1].ticker = "ABC"
    /\ port[1].shares = shares
    /\ port[1].buy_price = buy_price
    /\ port[1].cost_basis = cost_basis

FirstBuy ==
    /\ IsCall("buy", 10, R(500))
    /\ call.args.stop = R(400)
    /\ call.args.rng = DayRange(600, 400)
    /\ call.pre.cash = R(100000)
    /\ call.pre.portfolio = << >>

SecondBuy ==
    /\ IsCall("buy", 10, R(700))
    /\ call.pre.cash = R(95000)
    /\ OnlyABC(call.pre.portfolio, 10, R(500), R(5000))

FinalSell ==
    /\ IsCall("sell", 20, R(650))
    /\ call.pre.cash = R(88000)
    /\ OnlyABC(call.pre.portfolio, 20, R(600), R(12000))

ScenarioUpToSell ==
    /\ FirstBuy =>
         /\ call.ok
         /\ cash = R(95000)
         /\ OnlyABC(portfolio, 10, R(500), R(5000))
         /\ portfolio[1].stop_loss = R(400)
    /\ SecondBuy =>
         /\ call.ok
         /\ cash = R(88000)
         /\ OnlyABC(portfolio, 20, R(600), R(12000))
    /\ FinalSell =>
         /\ call.ok
         /\ portfolio = << >>
         /\ dbTradeLog[Len(dbTradeLog)].pnl = R(1000)

C24_Scenario == ScenarioUpToSell /\ (FinalSell => cash = R(101000))

C24_Witness ==
    /\ FinalSell
    /\ Len(dbTradeLog) = 3
    /\ dbTradeLog[1].buy_price = R(500)
    /\ dbTradeLog[2].buy_price = R(700)
    /\ cash = R(101000)

\* C24 as stated: the Sell leaves cash = 1080.00.
C24_AsStated == ScenarioUpToSell /\ (FinalSell => cash = R(108000))

\* C25: for every frame passed, ensure_schema returns a frame whose columns
\* are exactly ticker, shares, stop_loss, buy_price, cost_basis in that
\* order; a column the frame had keeps its values, a missing numeric column
\* holds 0.0, a missing ticker column the empty string, and no other column
\* is returned.
C25_EnsureSchema ==
    schema.called =>
        /\ schema.out.cols = <<"ticker", "shares", "stop_loss", "buy_price",
                               "cost_basis">>
        /\ Len(schema.out.rows) = Len(schema.arg.rows)
        /\ \A i \in 1..Len(schema.out.rows) :
             /\ DOMAIN schema.out.rows[i] =
                    {"ticker", "shares", "stop_loss", "buy_price", "cost_basis"}
             /\ \A c \in DOMAIN schema.out.rows[i] :
                  IF c \in DOMAIN schema.arg.rows[i]
                  THEN schema.out.rows[i][c] = schema.arg.rows[i][c]
                  ELSE IF c = "ticker"
                  THEN schema.out.rows[i][c] = ""
                  ELSE schema.out.rows[i][c] = [n |-> 0, d |-> 1]

C25_Witness ==
    /\ schema.called
    /\ schema.arg.cols = <<"shares", "ticker", "note">>
    /\ Len(schema.arg.rows) = 2
    /\ schema.out.rows[2]["ticker"] = "XYZ"
    /\ schema.out.rows[2]["stop_loss"] = [n |-> 0, d |-> 1]

\* C26: Buy checks, in this order, the input, the day range being
\* available, the price being inside it, and the funds, and reports the
\* first check that fails: with no day range the Buy fails with the
\* provider's error whatever the cost, and a price out of range is reported
\* as such even when the cost exceeds cash.
Failed(msg) == ~call.ok /\ call.msg = msg

C26_BuyCheckOrder ==
    call.op = "buy" =>
        /\ ~Positive => Failed(MsgInvalid) /\ ~call.queried
        /\ Positive => call.queried
        /\ Positive /\ ~call.args.rng.avail => Failed(MsgNoData)
        /\ Positive /\ call.args.rng.avail /\ ~WithinRange
              => Failed(MsgOutOfRange)
        /\ Positive /\ WithinRange /\ RLt(call.pre.cash, Amount)
              => Failed(MsgInsufficient)
        /\ Positive /\ WithinRange /\ RLe(Amount, call.pre.cash) => call.ok
        /\ ~call.ok => SessionUnchanged /\ StoreUnchanged

C26_Witness ==
    /\ call.op = "buy"
    /\ Positive
    /\ call.args.rng.avail
    /\ ~WithinRange
    /\ RLt(call.pre.cash, Amount)
    /\ Failed(MsgOutOfRange)

\* C27: Sell checks, in this order, the input, the ticker being held, the
\* day range being available, the price being inside it, and the shares
\* held, and reports the first check that fails: a ticker not held is
\* refused without asking for the day range, and too many shares are
\* refused as such only when the price is inside the day range.
C27_SellCheckOrder ==
    call.op = "sell" =>
        /\ ~Positive => Failed(MsgInvalid) /\ ~call.queried
        /\ Positive /\ ~HeldBefore
              => Failed(MsgUnknown) /\ ~call.queried
                 /\ call.args.rng = NotAsked
        /\ Positive /\ HeldBefore => call.queried
        /\ Positive /\ HeldBefore /\ ~call.args.rng.avail
              => Failed(MsgNoData)
        /\ Positive /\ HeldBefore /\ call.args.rng.avail /\ ~WithinRange
              => Failed(MsgOutOfRange)
        /\ Positive /\ HeldBefore /\ WithinRange
              /\ call.args.shares > RowBefore.shares
              => Failed(MsgOverSell)
        /\ Failed(MsgOverSell) => WithinRange
        /\ ValidSell => call.ok

C27_Witness ==
    /\ call.op = "sell"
    /\ Positive
    /\ HeldBefore
    /\ call.args.rng.avail
    /\ ~WithinRange
    /\ call.args.shares > RowBefore.shares
    /\ Failed(MsgOutOfRange)

\* C28: conservation of value.  Cash plus the cost basis of all holdings
\* changes, at every step, by the money paid in (the starting cash, a
\* deposit) plus the realized P&L the step logs: a Buy and a valuation run
\* leave it unchanged, a Sell changes it by exactly the P&L it logs.  From
\* the empty ledger it is therefore the starting cash plus all deposits
\* plus the P&L of all trade-log entries, in exact arithmetic.
RECURSIVE SumOver(_, _, _)
SumOver(rows, n, f) ==
    IF n = 0 THEN [n |-> 0, d |-> 1]
    ELSE RAdd(SumOver(rows, n - 1, f), rows[n][f])

Value(port, csh) == RAdd(csh, SumOver(port, Len(port), "cost_basis"))

LoggedPnl(tbl) == SumOver(tbl, Len(tbl), "pnl")

PaidIn(c) ==
    IF c.op \in {"init", "deposit"} /\ c.ok THEN c.args.price
    ELSE [n |-> 0, d |-> 1]

C28_ValueConserved ==
    [][ /\ RSub(Value(portfolio', cash'), Value(portfolio, cash))
           = RAdd(PaidIn(call'),
                  RSub(LoggedPnl(dbTradeLog'), LoggedPnl(dbTradeLog)))
        /\ call'.op = "buy"
              => /\ Value(portfolio', cash') = Value(portfolio, cash)
                 /\ LoggedPnl(dbTradeLog') = LoggedPnl(dbTradeLog)
        /\ call'.op = "sell" /\ call'.ok
              => Value(portfolio', cash')
                    = RAdd(Value(portfolio, cash),
                           dbTradeLog'[Len(dbTradeLog')].pnl)
      ]_vars

C28_Witness ==
    /\ call.op = "sell"
    /\ call.ok
    /\ portfolio # << >>
    /\ dbTradeLog[Len(dbTradeLog)].pnl = [n |-> 1000, d |-> 1]
    /\ Value(portfolio, cash) = [n |-> 23000, d |-> 1]
    /\ Value(call.pre.portfolio, call.pre.cash) = [n |-> 22000, d |-> 1]

\* C29: from the empty ledger and the empty trade log, after any Buys and
\* Sells the shares held of each ticker (0 without a Holding) are the
\* shares_bought minus the shares_sold summed over the trade-log entries of
\* the ticker, and the ticker has a Holding exactly when that is positive.
RECURSIVE Logged(_, _, _, _)
Logged(tbl, n, t, f) ==
    IF n = 0 THEN 0
    ELSE Logged(tbl, n - 1, t, f)
         + (IF tbl[n].ticker = t /\ tbl[n][f].d = 1 THEN tbl[n][f].n ELSE 0)

NetLogged(tbl, t) ==
    Logged(tbl, Len(tbl), t, "shares_bought")
        - Logged(tbl, Len(tbl), t, "shares_sold")

RECURSIVE Held(_, _, _)
Held(port, n, t) ==
    IF n = 0 THEN 0
    ELSE Held(port, n - 1, t) + (IF port[n].ticker = t THEN port[n].shares ELSE 0)

Symbols == {"abc", "ABC", "XYZ"}

C29_SharesMatchLog ==
    \A t \in Symbols :
        /\ Held(portfolio, Len(portfolio), t) = NetLogged(dbTradeLog, t)
        /\ Rows(portfolio, t) # {} <=> NetLogged(dbTradeLog, t) > 0

C29_Witness ==
    /\ call.op = "sell"
    /\ call.ok
    /\ Len(dbTradeLog) = 3
    /\ NetLogged(dbTradeLog, "ABC") = 10
    /\ Logged(dbTradeLog, 3, "ABC", "shares_bought") = 30
    /\ Held(portfolio, Len(portfolio), "ABC") = 10

\* C30: with two sessions on one store no trade is lost.  The first session
\* trades, the second only revalues; so once a trade of the first is
\* persisted, the persisted holdings keep the net shares of the trade log
\* for every ticker and the persisted cash stays the cash the first session
\* has after its trades, whatever the second session does afterwards.
C30_NoLostTrade ==
    /\ \A t \in Symbols :
          Held(dbPortfolio, Len(dbPortfolio), t) = NetLogged(dbTradeLog, t)
    /\ ~needs_cash => dbCash = <<cash>>

====
